---------------------------- MODULE Spec2Model ----------------------------
(***************************************************************************)
(* A model of opentile's Philips TIFF tiler (phillips_tiff_tiler.py), the  *)
(* abstract TiledPage / Tiler (interface.py) and the series classification *)
(* of the SVS tiler (svs_tiler.py).                                        *)
(*                                                                         *)
(* Bytes are integers, byte strings are sequences of integers.  Python     *)
(* indices are 0-based, TLA+ sequences 1-based: PyIndex and PySlice do the *)
(* conversion, negative indices included.  None is the empty sequence      *)
(* <<>> and a present value v is <<v>>.                                    *)
(***************************************************************************)
EXTENDS Integers, Sequences, FiniteSets, TLC

(***************************************************************************)
(* Bounds of the model.                                                    *)
(***************************************************************************)
\* longest frame table (page.databytecounts / page.dataoffsets) of a page
MaxFrames == 4
\* tile coordinates requested are drawn from -1 .. MaxCoord
MaxCoord == 2
\* longest raw frame given to _add_header on its own
MaxFrameBytes == 4
\* longest page.jpegtables given to _add_header on its own
MaxTableBytes == 5
\* image widths 1 .. MaxWidth (and the widths of WidthExamples)
MaxWidth == 8
\* most series in a tiff file
MaxSeries == 2

(***************************************************************************)
(* Program constants.                                                      *)
(***************************************************************************)
\* bytes([0xFF, 0xDA]): the start of scan tag
FF == 255
DA == 218

Threads == {"t1", "t2"}

None == <<>>
Some(v) == <<v>>

Min(a, b) == IF a < b THEN a ELSE b
Max(a, b) == IF a < b THEN b ELSE a

\* all sequences over S of length at most n
SeqsUpTo(S, n) == UNION {[1..k -> S] : k \in 0..n}

(***************************************************************************)
(* Python sequence indexing and slicing.                                   *)
(***************************************************************************)
\* s[i] is defined for -len(s) <= i < len(s); otherwise IndexError
PyIndexDefined(s, i) == -Len(s) <= i /\ i < Len(s)
PyIndex(s, i) == IF i < 0 THEN s[Len(s) + i + 1] ELSE s[i + 1]

\* a slice bound: negative counts from the end, then clamped to 0 .. len
PyBound(i, n) == IF i < 0 THEN Max(i + n, 0) ELSE Min(i, n)
\* s[a:b]
PySlice(s, a, b) ==
    LET lo == PyBound(a, Len(s))
        hi == PyBound(b, Len(s))
    IN  IF lo >= hi THEN <<>> ELSE SubSeq(s, lo + 1, hi)
\* s[a:None]
PySliceFrom(s, a) == PySlice(s, a, Len(s))

\* bytes.find(bytes([0xFF, 0xDA])): lowest 0-based index of the pair, or -1
FindStartOfScan(frame) ==
    LET hits == {i \in 0..(Len(frame) - 2) :
                    frame[i + 1] = FF /\ frame[i + 2] = DA}
    IN  IF hits = {} THEN -1
        ELSE CHOOSE i \in hits : \A j \in hits : i <= j

\* a slip in the slicing: the frame is cut after the tag, not before it
AddHeaderAfterTag(frame, jpegtables) ==
    LET start_of_scan == FindStartOfScan(frame) + 2
    IN  PySlice(frame, 0, start_of_scan)
            \o PySlice(jpegtables, 2, -2)
            \o PySliceFrom(frame, start_of_scan)

\* PhillipsTiffTiledPage._add_header
_add_header(frame, jpegtables) ==
    LET start_of_scan == FindStartOfScan(frame)
        tables == PySlice(jpegtables, 2, -2)
    IN  PySlice(frame, 0, start_of_scan)
            \o tables
            \o PySliceFrom(frame, start_of_scan)


(***************************************************************************)
(* Geometry.                                                               *)
(***************************************************************************)
\* math.ceil(a / b) for positive integers
CeilDiv(a, b) == (a + b - 1) \div b

\* PhillipsTiffTiledPage.tiled_size; sizes are pairs <<width, height>>
tiled_size(image_size, tile_size) ==
    IF tile_size # <<0, 0>>
    THEN <<CeilDiv(image_size[1], tile_size[1]),
           CeilDiv(image_size[2], tile_size[2])>>
    ELSE <<1, 1>>

\* the largest k with d * 2^k <= n, for n >= d >= 1: floor(log2(n / d))
RECURSIVE FloorLog2(_, _)
FloorLog2(n, d) == IF 2 * d <= n THEN 1 + FloorLog2(n, 2 * d) ELSE 0

\* int(math.log2(base_shape.width / self.image_size.width)): int() truncates
\* towards zero, so a ratio below one gives minus the floor of the inverse's
\* logarithm.  The widths are positive.
pyramid_index(base_width, width) ==
    IF base_width >= width
    THEN FloorLog2(base_width, width)
    ELSE 0 - FloorLog2(width, base_width)

\* base_width / width = 2^k for a non-negative integer k
RECURSIVE IsPowerOfTwoRatio(_, _)
IsPowerOfTwoRatio(base_width, width) ==
    \/ base_width = width
    \/ /\ base_width >= 2 * width
       /\ IsPowerOfTwoRatio(base_width, 2 * width)

\* PhillipsTiffTiledPage.__init__ (with TiledPage.__init__): a new Tiled Image
\* of tiff_page, its blank_tile not yet cached.  _mpp is base_mpp * 2^mpp_pow2.
PhillipsTiffTiledPage(tiff_page, base_size) ==
    LET index == pyramid_index(base_size[1], tiff_page.image_size[1])
    IN  [pyramid_index |-> index,
         mpp_pow2      |-> index,
         blank_tile    |-> None]

(***************************************************************************)
(* Series classification.  A series is [name, description]; the            *)
(* description is the set of the keywords it contains, so that             *)
(* description.find('Label') > -1 is "Label" \in description.              *)
(***************************************************************************)
SeriesKinds ==
    [name : {"Baseline", "Label", "Macro"},
     description : SUBSET {"Label", "Macro"}]

\* PhillipsTiffTiler.is_label, is_overview
is_label(s) == "Label" \in s.description
is_overview(s) == "Macro" \in s.description

\* the value a loop "for i, s in enumerate(all): if P(s): x = i" leaves in x,
\* which was None before it: the last index (0-based) of a series with P.
\* hit[i] tells whether the i-th series has P.
LastIndex(hit) ==
    LET hits == {i \in 1..Len(hit) : hit[i]}
    IN  IF hits = {} THEN None
        ELSE Some((CHOOSE i \in hits : \A j \in hits : j <= i) - 1)

PhillipsLabel(s) == is_label(s)
PhillipsOverview(s) == ~is_label(s) /\ is_overview(s)

\* PhillipsTiffTiler.__init__ after Tiler.__init__
PhillipsTiffTiler(all) ==
    [vendor                 |-> "phillips",
     volume_series_index    |-> Some(0),
     label_series_index     |->
        LastIndex([i \in 1..Len(all) |-> PhillipsLabel(all[i])]),
     overview_series_index  |->
        LastIndex([i \in 1..Len(all) |-> PhillipsOverview(all[i])])]

SvsBaseline(s) == s.name = "Baseline"
SvsLabel(s) == s.name = "Label"
SvsOverview(s) == s.name = "Macro"

\* SvsTiler.__init__: the index of the 'Baseline' series is the one the
\* constructor keeps for the volume (_level_series_index)
SvsTiler(all) ==
    [vendor                 |-> "svs",
     volume_series_index    |->
        LastIndex([i \in 1..Len(all) |-> SvsBaseline(all[i])]),
     label_series_index     |->
        LastIndex([i \in 1..Len(all) |-> SvsLabel(all[i])]),
     overview_series_index  |->
        LastIndex([i \in 1..Len(all) |-> SvsOverview(all[i])])]

(***************************************************************************)
(* The tiff file and its pages.  Frame i of the file is four bytes long    *)
(* and starts at byte 4 * i; its first byte tells the frames apart.  Every *)
(* third frame holds the bytes FF and DA, but not next to each other.      *)
(***************************************************************************)
FrameBytes(i) ==
    IF i % 3 = 2 THEN <<i + 1, FF, i + 1, DA>> ELSE <<i + 1, FF, DA, i + 1>>

RECURSIVE FramesUpTo(_)
FramesUpTo(i) == IF i < 0 THEN <<>> ELSE FramesUpTo(i - 1) \o FrameBytes(i)

\* the bytes of the file: one frame more than the longest frame table
FileData == FramesUpTo(MaxFrames)

FrameOffset(i) == i * Len(FrameBytes(i))

\* the JPEGTables of a page: start tag, two table bytes, end tag
JpegTables == <<FF, 216, 7, 8, FF, 217>>

\* the TiffPages with a frame table of n entries: each entry is either a
\* frame of the file or sparse (offset 0, byte count 0)
PagesOfLength(n, tile_sizes) ==
    {[image_size     |-> <<4, 3>>,
      tile_size      |-> ts,
      dataoffsets    |-> [i \in 1..n |->
                            IF (i - 1) \in present
                            THEN FrameOffset(i - 1) ELSE 0],
      databytecounts |-> [i \in 1..n |->
                            IF (i - 1) \in present
                            THEN Len(FrameBytes(i - 1)) ELSE 0],
      jpegtables     |-> JpegTables] :
        present \in SUBSET (0..(n - 1)), ts \in tile_sizes}

Pages(lengths, tile_sizes) ==
    UNION {PagesOfLength(n, tile_sizes) : n \in lengths}

\* the page of the specifications that fetch no tile
NoPage ==
    [image_size |-> <<4, 3>>, tile_size |-> <<2, 2>>, dataoffsets |-> <<>>,
     databytecounts |-> <<>>, jpegtables |-> JpegTables]

Coords == (-1)..MaxCoord
\* the tile coordinates inside the 2 x 2 grid of a page with 2 x 2 tiles
GridCoords == 0..1

WidthExamples == {333, 1000, 3999, 4000}
Widths == (1..MaxWidth) \cup WidthExamples

(***************************************************************************)
(* State.                                                                  *)
(***************************************************************************)
VARIABLES
    series,         \* Tiler.series: the series of the tiff file
    tiler,          \* the container: None before it is opened
    base_size,      \* Tiler.base_size
    page,           \* the TiffPage that get_page(series, level, page) names
    tiled,          \* a TiledPage of page that its callers keep: None or
                    \* <<[pyramid_index, mpp_pow2, blank_tile]>>
    fh_pos,         \* position of the shared FileHandle Tiler._fh
    lock_build,     \* whether functools.cached_property holds a lock
                    \* around the getter (CPython 3.8-3.11) or not (3.12 on)
    lock_holder,    \* the thread inside that lock, "" when free
    th,             \* per thread: the get_tile call it is in
    synth_by,       \* history: the threads that ran fill_image for tiled
    tiler_served,   \* history: a sparse Tiler.get_tile of page has returned
    patch,          \* a raw frame and what _add_header has made of it
    tiled2,         \* a second TiledPage of page that its callers keep
    fh_closed,      \* whether the shared FileHandle Tiler._fh is closed
    closed_objs     \* history: the objects close() was called on, of
                    \* "tiled", "tiled2" and "tiler"

vars == <<series, tiler, base_size, page, tiled, fh_pos, lock_build,
          lock_holder, th, synth_by, tiler_served, patch, tiled2,
          fh_closed, closed_objs>>

Idle ==
    [pc |-> "idle", op |-> "", tile_position |-> <<0, 0>>, own |-> None,
     frame_index |-> 0, index |-> 0, purpose |-> "", frame |-> <<>>,
     reads |-> <<>>, fills |-> 0, outcome |-> "", result |-> <<>>,
     prior |-> FALSE]

BaselineOnly == <<[name |-> "Baseline", description |-> {}]>>

\* a container opened on a file whose page is one of pages
InitPages(pages) ==
    /\ series = BaselineOnly
    /\ tiler = Some(PhillipsTiffTiler(series))
    /\ page \in pages
    /\ base_size = page.image_size
    /\ tiled = None
    /\ fh_pos = 0
    /\ lock_build \in BOOLEAN
    /\ lock_holder = ""
    /\ th = [t \in Threads |-> Idle]
    /\ synth_by = {}
    /\ tiler_served = FALSE
    /\ patch = [frame |-> <<>>, outs |-> <<>>]
    /\ tiled2 = None
    /\ fh_closed = FALSE
    /\ closed_objs = {}

Init == InitPages(Pages(0..MaxFrames, {<<2, 2>>, <<0, 0>>}))

(***************************************************************************)
(* Fetching a tile.  A call is a sequence of steps of its thread; what a   *)
(* step reads or writes of the shared state (the blank_tile cache of the   *)
(* TiledPage, the position of the file handle) happens at that step.       *)
(***************************************************************************)
\* the TiledPage the call of thread t is made on
Obj(t) ==
    CASE th[t].op = "tiler" -> th[t].own[1]
      [] th[t].op = "page2" -> tiled2[1]
      [] OTHER -> tiled[1]

\* frame_index = tile_point.y * self.tiled_size.width + tile_point.x
FrameIndex(tiff_page, pos) ==
    pos[2] * tiled_size(tiff_page.image_size, tiff_page.tile_size)[1] + pos[1]

\* a slip: a zero byte count is not taken as sparse
IsSparseIgnoresZero(databytecounts, frame_index) ==
    frame_index >= Len(databytecounts)

\* the condition of get_tile's "Sparse tile" branch; the subscript is
\* evaluated only if the first disjunct is false, and must then be defined
IsSparse(databytecounts, frame_index) ==
    \/ frame_index >= Len(databytecounts)
    \/ PyIndex(databytecounts, frame_index) = 0

\* a slip: next(..., 0), the first frame when none has bytes
ValidFrameIndexOrFirst(databytecounts) ==
    LET valid == {i \in 1..Len(databytecounts) : databytecounts[i] # 0}
    IN  IF valid = {}
        THEN (IF databytecounts = <<>> THEN None ELSE Some(0))
        ELSE Some((CHOOSE i \in valid : \A j \in valid : i <= j) - 1)

\* blank_tile's next(index for index, datalength in enumerate(...) if
\* datalength != 0): None stands for StopIteration
valid_frame_index(databytecounts) ==
    LET valid == {i \in 1..Len(databytecounts) : databytecounts[i] # 0}
    IN  IF valid = {} THEN None
        ELSE Some((CHOOSE i \in valid : \A j \in valid : i <= j) - 1)

\* FileHandle.read(n) at position pos: the bytes there, fewer at the end
FileRead(pos, n) == PySlice(FileData, pos, pos + n)

\* TurboJPEG.fill_image: a tile with the header of valid_tile (all up to and
\* with its start of scan tag) and one scan of uniform content
fill_image(valid_tile) ==
    LET start_of_scan == FindStartOfScan(valid_tile)
    IN  (IF start_of_scan < 0 THEN valid_tile
         ELSE PySlice(valid_tile, 0, start_of_scan + 2)) \o <<0>>

Release(t) == IF lock_holder = t THEN "" ELSE lock_holder

\* TiledPage.get_tile is called on the TiledPage its caller keeps
TiledPage_get_tile(t, pos) ==
    /\ th[t].pc \in {"idle", "done"}
    /\ tiled # None
    /\ th' = [th EXCEPT ![t] =
                [Idle EXCEPT !.pc = "get_tile", !.op = "page",
                             !.tile_position = pos, !.prior = tiler_served]]
    /\ UNCHANGED <<series, tiler, base_size, page, tiled, fh_pos, lock_build,
                   lock_holder, synth_by, tiler_served, patch, tiled2,
                   fh_closed, closed_objs>>

\* Tiler.get_tile: get_page makes a new TiledPage, get_tile is called on it
Tiler_get_tile(t, pos) ==
    /\ th[t].pc \in {"idle", "done"}
    /\ tiler # None
    /\ th' = [th EXCEPT ![t] =
                [Idle EXCEPT !.pc = "get_tile", !.op = "tiler",
                             !.tile_position = pos, !.prior = tiler_served,
                             !.own = Some(PhillipsTiffTiledPage(page,
                                                                base_size))]]
    /\ UNCHANGED <<series, tiler, base_size, page, tiled, fh_pos, lock_build,
                   lock_holder, synth_by, tiler_served, patch, tiled2,
                   fh_closed, closed_objs>>

\* PhillipsTiffTiler.get_page, its TiledPage kept by the caller
get_page ==
    /\ tiler # None
    /\ tiled = None
    /\ tiled' = Some(PhillipsTiffTiledPage(page, base_size))
    /\ UNCHANGED <<series, tiler, base_size, page, fh_pos, lock_build,
                   lock_holder, th, synth_by, tiler_served, patch, tiled2,
                   fh_closed, closed_objs>>

\* PhillipsTiffTiledPage.get_tile up to its branch
get_tile(t) ==
    LET frame_index == FrameIndex(page, th[t].tile_position)
        counts == page.databytecounts
    IN  /\ th[t].pc = "get_tile"
        /\ th' = [th EXCEPT ![t] =
              IF frame_index < Len(counts)
                    /\ ~PyIndexDefined(counts, frame_index)
              THEN [@ EXCEPT !.pc = "done", !.frame_index = frame_index,
                             !.outcome = "IndexError"]
              ELSE IF IsSparse(counts, frame_index)
              THEN [@ EXCEPT !.pc = "blank_tile",
                             !.frame_index = frame_index]
              ELSE [@ EXCEPT !.pc = "seek", !.frame_index = frame_index,
                             !.index = frame_index, !.purpose = "tile"]]
        /\ UNCHANGED <<series, tiler, base_size, page, tiled, fh_pos,
                       lock_build, lock_holder, synth_by, tiler_served,
                       patch, tiled2, fh_closed, closed_objs>>

\* the getter of blank_tile starts: the frame to read, or ValueError
Getter(frame) ==
    LET valid == valid_frame_index(page.databytecounts)
    IN  IF valid = None
        THEN [frame EXCEPT !.pc = "done", !.outcome = "ValueError"]
        ELSE [frame EXCEPT !.pc = "seek", !.index = valid[1],
                           !.purpose = "blank"]

\* self.blank_tile: cached_property looks the value up in the instance
blank_tile(t) ==
    LET cache == Obj(t).blank_tile
    IN  /\ th[t].pc = "blank_tile"
        /\ th' = [th EXCEPT ![t] =
              IF cache # None
              THEN [@ EXCEPT !.pc = "done", !.outcome = "blank",
                             !.result = cache[1]]
              ELSE IF lock_build
              THEN [@ EXCEPT !.pc = "lock"]
              ELSE Getter(@)]
        /\ UNCHANGED <<series, tiler, base_size, page, tiled, fh_pos,
                       lock_build, lock_holder, synth_by, tiler_served,
                       patch, tiled2, fh_closed, closed_objs>>

\* cached_property with a lock: take it, look the value up again
blank_tile_lock(t) ==
    LET cache == Obj(t).blank_tile
        next == Getter(th[t])
    IN  /\ th[t].pc = "lock"
        /\ lock_holder = ""
        /\ th' = [th EXCEPT ![t] =
              IF cache # None
              THEN [@ EXCEPT !.pc = "done", !.outcome = "blank",
                             !.result = cache[1]]
              ELSE next]
        /\ lock_holder' = IF cache = None /\ next.pc # "done" THEN t ELSE ""
        /\ UNCHANGED <<series, tiler, base_size, page, tiled, fh_pos,
                       lock_build, synth_by, tiler_served, patch, tiled2,
                       fh_closed, closed_objs>>

\* what a seek or a read of a closed FileHandle does to the call of thread
\* t: the handle raises, the call ends with that error and the exception
\* leaves the lock of cached_property
ClosedFile(t) ==
    /\ th' = [th EXCEPT ![t] = [@ EXCEPT !.pc = "done",
                                         !.outcome = "closed file"]]
    /\ lock_holder' = Release(t)
    /\ UNCHANGED fh_pos

\* _read_frame: self._fh.seek(self.page.dataoffsets[frame_index])
_read_frame_seek(t) ==
    /\ th[t].pc = "seek"
    /\ IF fh_closed
       THEN ClosedFile(t)
       ELSE /\ fh_pos' = PyIndex(page.dataoffsets, th[t].index)
            /\ th' = [th EXCEPT ![t].pc = "read"]
            /\ UNCHANGED lock_holder
    /\ UNCHANGED <<series, tiler, base_size, page, tiled, lock_build,
                   synth_by, tiler_served, patch, tiled2, fh_closed,
                   closed_objs>>

\* _read_frame: self._fh.read(self.page.databytecounts[frame_index])
_read_frame_read(t) ==
    LET n == PyIndex(page.databytecounts, th[t].index)
        data == FileRead(fh_pos, n)
    IN  /\ th[t].pc = "read"
        /\ IF fh_closed
           THEN ClosedFile(t)
           ELSE /\ fh_pos' = fh_pos + Len(data)
                /\ th' = [th EXCEPT ![t] =
                      [@ EXCEPT !.pc = "add_header", !.frame = data,
                                !.reads = Append(@, [at |-> fh_pos,
                                                     n |-> n])]]
                /\ UNCHANGED lock_holder
        /\ UNCHANGED <<series, tiler, base_size, page, tiled, lock_build,
                       synth_by, tiler_served, patch, tiled2, fh_closed,
                       closed_objs>>

\* _add_header, and then either get_tile returns the tile, or blank_tile
\* has fill_image make the blank tile, cached_property stores it in the
\* instance and get_tile returns it
get_tile_return(t) ==
    LET tile == _add_header(th[t].frame, page.jpegtables)
        blank == fill_image(tile)
        kept == th[t].op = "page"
        kept2 == th[t].op = "page2"
        made == th[t].op = "tiler"
    IN  /\ th[t].pc = "add_header"
        /\ IF th[t].purpose = "tile"
           THEN /\ th' = [th EXCEPT ![t] =
                      [@ EXCEPT !.pc = "done", !.outcome = "tile",
                                !.result = tile]]
                /\ UNCHANGED <<tiled, tiled2, synth_by, tiler_served,
                               lock_holder>>
           ELSE /\ th' = [th EXCEPT ![t] =
                      [@ EXCEPT !.pc = "done", !.outcome = "blank",
                                !.result = blank, !.fills = @ + 1,
                                !.own = IF made
                                        THEN Some([@[1] EXCEPT
                                            !.blank_tile = Some(blank)])
                                        ELSE @]]
                /\ tiled' = IF kept
                            THEN Some([tiled[1] EXCEPT
                                          !.blank_tile = Some(blank)])
                            ELSE tiled
                /\ tiled2' = IF kept2
                             THEN Some([tiled2[1] EXCEPT
                                           !.blank_tile = Some(blank)])
                             ELSE tiled2
                /\ synth_by' = IF kept THEN synth_by \cup {t} ELSE synth_by
                /\ tiler_served' = (tiler_served \/ made)
                /\ lock_holder' = Release(t)
        /\ UNCHANGED <<series, tiler, base_size, page, fh_pos, lock_build,
                       patch, fh_closed, closed_objs>>

\* the steps of a call of thread t
Step(t) ==
    \/ get_tile(t)
    \/ blank_tile(t)
    \/ blank_tile_lock(t)
    \/ _read_frame_seek(t)
    \/ _read_frame_read(t)
    \/ get_tile_return(t)

\* one caller at a time
Next ==
    \/ get_page
    \/ \E pos \in Coords \X Coords : TiledPage_get_tile("t1", pos)
    \/ \E pos \in Coords \X Coords : Tiler_get_tile("t1", pos)
    \/ Step("t1")

Spec == Init /\ [][Next]_vars

(***************************************************************************)
(* Callers on two threads, each fetching tiles of the grid: from the       *)
(* TiledPage they share, or through the Tiler.  The pages have a frame     *)
(* table for the first row of the grid only.                               *)
(***************************************************************************)
InitThreads == InitPages(Pages({2}, {<<2, 2>>}))

NextThreads ==
    \/ get_page
    \/ \E t \in Threads, pos \in GridCoords \X GridCoords :
            TiledPage_get_tile(t, pos)
    \/ \E t \in Threads, pos \in GridCoords \X GridCoords :
            Tiler_get_tile(t, pos)
    \/ \E t \in Threads : Step(t)

SpecThreads == InitThreads /\ [][NextThreads]_vars

(***************************************************************************)
(* Closing.  One caller keeps two TiledPages of the page, both made by     *)
(* get_page, which hands each the one FileHandle of the container          *)
(* (self._fh); it fetches tiles from them and closes them and the          *)
(* container in any order, one operation at a time.                        *)
(***************************************************************************)
\* the TiledPages the caller keeps
KeptPages == {"tiled", "tiled2"}

\* the kept TiledPage of that name: None while get_page has not made it
Kept(name) == IF name = "tiled" THEN tiled ELSE tiled2

\* no call is in progress
Quiet == \A t \in Threads : th[t].pc \in {"idle", "done"}

\* PhillipsTiffTiler.get_page once more: a second TiledPage of the same
\* page, constructed on the same self._fh
get_page2 ==
    /\ tiler # None
    /\ tiled # None
    /\ tiled2 = None
    /\ tiled2' = Some(PhillipsTiffTiledPage(page, base_size))
    /\ UNCHANGED <<series, tiler, base_size, page, tiled, fh_pos, lock_build,
                   lock_holder, th, synth_by, tiler_served, patch, fh_closed,
                   closed_objs>>

\* TiledPage.get_tile is called on the second TiledPage
TiledPage2_get_tile(t, pos) ==
    /\ th[t].pc \in {"idle", "done"}
    /\ tiled2 # None
    /\ th' = [th EXCEPT ![t] =
                [Idle EXCEPT !.pc = "get_tile", !.op = "page2",
                             !.tile_position = pos, !.prior = tiler_served]]
    /\ UNCHANGED <<series, tiler, base_size, page, tiled, fh_pos, lock_build,
                   lock_holder, synth_by, tiler_served, patch, tiled2,
                   fh_closed, closed_objs>>

\* TiledPage.close: self._fh.close(), on the handle get_page gave it
TiledPage_close(name) ==
    /\ Quiet
    /\ Kept(name) # None
    /\ fh_closed' = TRUE
    /\ closed_objs' = closed_objs \cup {name}
    /\ UNCHANGED <<series, tiler, base_size, page, tiled, fh_pos, lock_build,
                   lock_holder, th, synth_by, tiler_served, patch, tiled2>>

\* Tiler.close: self._tiff_file.close(), which closes its filehandle
Tiler_close ==
    /\ Quiet
    /\ tiler # None
    /\ fh_closed' = TRUE
    /\ closed_objs' = closed_objs \cup {"tiler"}
    /\ UNCHANGED <<series, tiler, base_size, page, tiled, fh_pos, lock_build,
                   lock_holder, th, synth_by, tiler_served, patch, tiled2>>

InitClose == InitPages(Pages({2, 3}, {<<2, 2>>}))

NextClose ==
    \/ get_page
    \/ get_page2
    \/ \E pos \in GridCoords \X GridCoords : TiledPage_get_tile("t1", pos)
    \/ \E pos \in GridCoords \X GridCoords : TiledPage2_get_tile("t1", pos)
    \/ \E name \in KeptPages : TiledPage_close(name)
    \/ Tiler_close
    \/ Step("t1")

SpecClose == InitClose /\ [][NextClose]_vars

(***************************************************************************)
(* _add_header on its own: any raw frame, any jpegtables, patched twice.   *)
(***************************************************************************)
InitHeader ==
    /\ series = BaselineOnly
    /\ tiler = Some(PhillipsTiffTiler(series))
    /\ \E tables \in SeqsUpTo({FF, 196}, MaxTableBytes) :
            page = [NoPage EXCEPT !.jpegtables = tables]
    /\ base_size = page.image_size
    /\ tiled = Some(PhillipsTiffTiledPage(page, base_size))
    /\ fh_pos = 0
    /\ lock_build = FALSE
    /\ lock_holder = ""
    /\ th = [t \in Threads |-> Idle]
    /\ synth_by = {}
    /\ tiler_served = FALSE
    /\ \E frame \in SeqsUpTo({FF, DA, 0}, MaxFrameBytes) :
            patch = [frame |-> frame, outs |-> <<>>]
    /\ tiled2 = None
    /\ fh_closed = FALSE
    /\ closed_objs = {}

Patch ==
    /\ Len(patch.outs) < 2
    /\ patch' = [patch EXCEPT
                    !.outs = Append(@, _add_header(patch.frame,
                                                   page.jpegtables))]
    /\ UNCHANGED <<series, tiler, base_size, page, tiled, fh_pos, lock_build,
                   lock_holder, th, synth_by, tiler_served, tiled2,
                   fh_closed, closed_objs>>

SpecHeader == InitHeader /\ [][Patch]_vars

(***************************************************************************)
(* The construction of a TiledPage on its own: any width of the base       *)
(* level, any width of the page.                                           *)
(***************************************************************************)
InitGeometry ==
    /\ series = BaselineOnly
    /\ tiler = Some(PhillipsTiffTiler(series))
    /\ \E width \in Widths : page = [NoPage EXCEPT !.image_size = <<width, 3>>]
    /\ \E width \in Widths : base_size = <<width, 3>>
    /\ tiled = None
    /\ fh_pos = 0
    /\ lock_build = FALSE
    /\ lock_holder = ""
    /\ th = [t \in Threads |-> Idle]
    /\ synth_by = {}
    /\ tiler_served = FALSE
    /\ patch = [frame |-> <<>>, outs |-> <<>>]
    /\ tiled2 = None
    /\ fh_closed = FALSE
    /\ closed_objs = {}

SpecGeometry == InitGeometry /\ [][get_page]_vars

(***************************************************************************)
(* Opening a container on its own: a file of one or more series.           *)
(***************************************************************************)
InitOpen ==
    /\ series \in SeqsUpTo(SeriesKinds, MaxSeries) \ {<<>>}
    /\ tiler = None
    /\ page = NoPage
    /\ base_size = page.image_size
    /\ tiled = None
    /\ fh_pos = 0
    /\ lock_build = FALSE
    /\ lock_holder = ""
    /\ th = [t \in Threads |-> Idle]
    /\ synth_by = {}
    /\ tiler_served = FALSE
    /\ patch = [frame |-> <<>>, outs |-> <<>>]
    /\ tiled2 = None
    /\ fh_closed = FALSE
    /\ closed_objs = {}

PhillipsTiffTiler_init ==
    /\ tiler = None
    /\ tiler' = Some(PhillipsTiffTiler(series))
    /\ UNCHANGED <<series, base_size, page, tiled, fh_pos, lock_build,
                   lock_holder, th, synth_by, tiler_served, patch, tiled2,
                   fh_closed, closed_objs>>

SvsTiler_init ==
    /\ tiler = None
    /\ tiler' = Some(SvsTiler(series))
    /\ UNCHANGED <<series, base_size, page, tiled, fh_pos, lock_build,
                   lock_holder, th, synth_by, tiler_served, patch, tiled2,
                   fh_closed, closed_objs>>

NextOpen == PhillipsTiffTiler_init \/ SvsTiler_init

SpecOpen == InitOpen /\ [][NextOpen]_vars

(***************************************************************************)
(* Properties.                                                             *)
(***************************************************************************)
Columns == tiled_size(page.image_size, page.tile_size)[1]
Rows == tiled_size(page.image_size, page.tile_size)[2]
InGrid(pos) ==
    /\ 0 <= pos[1] /\ pos[1] < Columns
    /\ 0 <= pos[2] /\ pos[2] < Rows
Finished(t) == th[t].pc = "done"
AllSparse == \A i \in 1..Len(page.databytecounts) : page.databytecounts[i] = 0

\* C1: a finished get_tile((x, y)) whose frame_index = y * columns + x can
\* be looked up in the frame table took the sparse branch (and returned the
\* blank tile whenever the page has a frame to make it from) if and only if
\* frame_index >= len(databytecounts) or databytecounts[frame_index] = 0;
\* otherwise it made exactly one read, of databytecounts[frame_index] bytes
\* at dataoffsets[frame_index], and returned these bytes with the header
\* added.
C1_SparseIffNoBytes ==
    \A t \in Threads :
        LET c == th[t]
            fi == c.tile_position[2] * Columns + c.tile_position[1]
            counts == page.databytecounts
            sparse == fi >= Len(counts) \/ PyIndex(counts, fi) = 0
        IN  (Finished(t) /\ fi >= 0 - Len(counts)) =>
              /\ c.frame_index = fi
              /\ c.outcome \in {"blank", "ValueError", "tile"}
              /\ (c.outcome \in {"blank", "ValueError"}) <=> sparse
              /\ (c.outcome = "blank") <=> (sparse /\ ~AllSparse)
              /\ c.outcome = "blank" =>
                    Obj(t).blank_tile = Some(c.result)
              /\ c.outcome = "tile" =>
                    LET at == PyIndex(page.dataoffsets, fi)
                        n == PyIndex(counts, fi)
                    IN  /\ c.reads = <<[at |-> at, n |-> n]>>
                        /\ c.frame = SubSeq(FileData, at + 1, at + n)
                        /\ c.result = _add_header(c.frame, page.jpegtables)
                        /\ c.fills = 0

\* a tile with a zero byte count inside the frame table was asked for, and
\* the blank tile was made and returned
C1_Witness ==
    /\ Finished("t1")
    /\ th["t1"].outcome = "blank"
    /\ th["t1"].fills = 1
    /\ th["t1"].frame_index >= 0
    /\ th["t1"].frame_index < Len(page.databytecounts)

\* C2: a finished get_tile((x, y)) with x or y outside the tile grid has
\* failed: it returned neither a frame of the page nor the blank tile.
C2_OutOfBoundsFails ==
    \A t \in Threads :
        (Finished(t) /\ ~InGrid(th[t].tile_position)) =>
            th[t].outcome \notin {"tile", "blank"}

\* C3: a TiledPage is constructed only if base width / width is a power of
\* two 2^k, k >= 0.
C3_NonPowerOfTwoFails ==
    tiled # None => IsPowerOfTwoRatio(base_size[1], page.image_size[1])

\* the 0-based index of the first FF DA of frame, for a frame that has one
FirstTag(frame) ==
    CHOOSE s \in 0..(Len(frame) - 2) :
        /\ frame[s + 1] = FF /\ frame[s + 2] = DA
        /\ \A r \in 0..(s - 1) : ~(frame[r + 1] = FF /\ frame[r + 2] = DA)
HasTag(frame) ==
    \E s \in 0..(Len(frame) - 2) : frame[s + 1] = FF /\ frame[s + 2] = DA

\* what C4 says of one output of the patcher, but for its length
C4_Inserted(frame, tables, out) ==
    LET s == FirstTag(frame)
        body == IF Len(tables) >= 4
                THEN SubSeq(tables, 3, Len(tables) - 2) ELSE <<>>
    IN  /\ out = SubSeq(frame, 1, s) \o body \o SubSeq(frame, s + 1, Len(frame))
        /\ SubSeq(out, 1, s) \o SubSeq(out, s + Len(body) + 1, Len(out)) = frame
        /\ \A i \in 1..Len(patch.outs) : patch.outs[i] = out

\* C4 (amended): for a raw frame with a start of scan tag, first at s, the
\* patcher returns frame[0:s] ++ jpegtables[2:-2] ++ frame[s:]; the length
\* is len(frame) + max(len(jpegtables) - 4, 0); the frame's bytes are all
\* there, once, in order; patching twice gives the same bytes.
C4_TablesInserted ==
    HasTag(patch.frame) =>
        \A i \in 1..Len(patch.outs) :
            /\ C4_Inserted(patch.frame, page.jpegtables, patch.outs[i])
            /\ Len(patch.outs[i]) = Len(patch.frame)
                    + Max(Len(page.jpegtables) - 4, 0)

\* C4 as claimed: the length is len(frame) + len(jpegtables) - 4.
C4_AsClaimed ==
    HasTag(patch.frame) =>
        \A i \in 1..Len(patch.outs) :
            /\ C4_Inserted(patch.frame, page.jpegtables, patch.outs[i])
            /\ Len(patch.outs[i]) = Len(patch.frame)
                    + Len(page.jpegtables) - 4

\* a frame with bytes before its tag, and tables with a body, patched twice
C4_Witness ==
    /\ HasTag(patch.frame)
    /\ FirstTag(patch.frame) >= 1
    /\ Len(page.jpegtables) >= 5
    /\ Len(patch.outs) = 2

\* C5: a get_tile that read a raw frame without a start of scan tag for a
\* present tile of the grid does not return a tile.
C5_NoTagFails ==
    \A t \in Threads :
        (Finished(t) /\ InGrid(th[t].tile_position)
            /\ th[t].purpose = "tile" /\ ~HasTag(th[t].frame)) =>
                th[t].outcome # "tile"

\* C6: on a page whose byte counts are all 0, every get_tile ends in an
\* error (ValueError for a coordinate of the grid), none returns bytes, seeks,
\* reads or fills, and no blank tile is cached.
C6_AllSparseFails ==
    AllSparse =>
        /\ \A t \in Threads :
              /\ th[t].pc \notin {"seek", "read", "add_header"}
              /\ th[t].reads = <<>> /\ th[t].fills = 0
              /\ th[t].result = <<>> /\ th[t].frame = <<>>
              /\ th[t].own # None => th[t].own[1].blank_tile = None
              /\ Finished(t) =>
                    /\ th[t].outcome \in {"ValueError", "IndexError"}
                    /\ InGrid(th[t].tile_position) =>
                            th[t].outcome = "ValueError"
        /\ tiled # None => tiled[1].blank_tile = None
        /\ fh_pos = 0
        /\ synth_by = {}
        /\ lock_holder = ""

\* a tile of the grid was asked of the kept TiledPage of an all-sparse page
\* with a frame table, and ValueError was raised
C6_Witness ==
    /\ AllSparse
    /\ page.databytecounts # <<>>
    /\ Finished("t1")
    /\ th["t1"].op = "page"
    /\ InGrid(th["t1"].tile_position)
    /\ th["t1"].outcome = "ValueError"

\* C7: a Tiler.get_tile for a sparse tile of the grid that returns the blank
\* tile after an earlier sparse Tiler.get_tile of the page has returned it
\* made no read and no fill.
C7_SynthesizedOnce ==
    \A t \in Threads :
        (Finished(t) /\ InGrid(th[t].tile_position)
            /\ th[t].op = "tiler" /\ th[t].outcome = "blank"
            /\ th[t].prior) =>
                (th[t].fills = 0 /\ th[t].reads = <<>>)

\* C8: fill_image runs at most once for the blank tile of one TiledPage,
\* and the callers that got its blank tile got the same bytes.
C8_SingleFlight ==
    /\ Cardinality(synth_by) <= 1
    /\ \A t, u \in Threads :
          (Finished(t) /\ Finished(u)
              /\ th[t].op = "page" /\ th[u].op = "page"
              /\ th[t].outcome = "blank" /\ th[u].outcome = "blank") =>
                  th[t].result = th[u].result

\* C9: a constructed container has a volume series index; it is the index
\* of a series that is a volume series, and is neither the label series
\* index nor the overview series index.
C9_VolumeSeries ==
    tiler # None =>
        LET c == tiler[1]
            volume == c.volume_series_index
            IsVolume(s) == IF c.vendor = "svs" THEN SvsBaseline(s)
                           ELSE ~is_label(s) /\ ~is_overview(s)
        IN  /\ volume # None
            /\ volume[1] < Len(series)
            /\ IsVolume(series[volume[1] + 1])
            /\ volume # c.label_series_index
            /\ volume # c.overview_series_index

\* C10: the raw frame a call reads for a present tile is the bytes of the
\* file at its own frame's offset and byte count.
C10_OwnFrameRead ==
    \A t \in Threads :
        (th[t].pc \in {"add_header", "done"} /\ th[t].purpose = "tile"
            /\ th[t].reads # <<>>) =>
            LET at == PyIndex(page.dataoffsets, th[t].index)
                n == PyIndex(page.databytecounts, th[t].index)
            IN  th[t].frame = SubSeq(FileData, at + 1, at + n)


\* the call of thread t was made on a TiledPage that close() had been
\* called on, or in a container that close() had been called on
OnClosed(t) ==
    \/ "tiler" \in closed_objs
    \/ th[t].op = "page" /\ "tiled" \in closed_objs
    \/ th[t].op = "page2" /\ "tiled2" \in closed_objs

\* C11: the shared file handle is closed only by the container: while the
\* container is open, closing one kept TiledPage leaves the handle open for
\* the other one, and no get_tile on a TiledPage that is itself still open
\* ends by finding the handle closed.
C11_ClosedByContainerOnly ==
    /\ (/\ fh_closed
         /\ \E name \in KeptPages :
                Kept(name) # None /\ name \notin closed_objs)
            => "tiler" \in closed_objs
    /\ \A t \in Threads :
            Finished(t) /\ th[t].outcome = "closed file" => OnClosed(t)

=============================================================================
